---- MODULE Spec2Model ----
(***************************************************************************)
(* Model of the cross-validation evaluation harness:                       *)
(*   src/src/helper_functions.py      summarize_cv_scores,                 *)
(*                                    get_hyperparameter_grid,             *)
(*                                    get_feature_lists, main (self test)  *)
(*   src/src/classifier_evaluation.py main                                 *)
(*                                                                         *)
(* Column names and command line values are sequences of one-character     *)
(* strings, so that str.replace and int() are modelled by what they do.    *)
(* Numbers produced by mean() are exact fractions in lowest terms.         *)
(***************************************************************************)
EXTENDS Integers, Sequences, FiniteSets, TLC

VARIABLES
    \* ---- helper_functions.py, called on its own ----
    hpc,              \* position of the caller of the helper functions
    X,                \* dict given to summarize_cv_scores (insertion ordered)
    classifier_name,  \* name given to summarize_cv_scores
    X_df,             \* data frame returned by summarize_cv_scores
    model_name,       \* name given to get_hyperparameter_grid
    param_grid,       \* value returned by get_hyperparameter_grid
    \* ---- classifier_evaluation.py main ----
    pc,               \* position of main
    train_data_file,  \* the dataset named on the command line
    seed_arg,         \* --chosen_seed as docopt hands it over
    folds_arg,        \* --n_cv_folds as docopt hands it over
    chosen_seed,      \* chosen_seed after lines 54-67
    n_cv_folds,       \* n_cv_folds after lines 69-82
    exit_code,        \* argument of exit(), when main called it
    data_read,        \* pd.read_csv has been executed
    preprocessor,     \* the column transformer of lines 115-121
    cur,              \* index of the estimator under cross validation
    inflight,         \* folds of the running cross_validate call at the workers
    finished,         \* fold results the workers have delivered so far
    overtaken,        \* a fold was delivered before a fold of lower index
    mean_scores_df,   \* the growing table of summary rows
    report_file,      \* content of the report file
    writes,           \* number of to_csv calls of this run
    cv_log,           \* the estimators handed to cross_validate, in order
    run,              \* 1 for the first run, 2 for its repetition
    first_report,     \* the report file the first run left behind
    clock             \* time one fit or one scoring takes in this run

hvars == <<hpc, X, classifier_name, X_df, model_name, param_grid>>
mvars == <<pc, train_data_file, seed_arg, folds_arg, chosen_seed, n_cv_folds,
           exit_code, data_read, preprocessor, cur, inflight, finished, overtaken,
           mean_scores_df,
           report_file, writes, cv_log, run, first_report, clock>>
vars == <<hvars, mvars>>

-----------------------------------------------------------------------------
(* Bounds of the model *)

MaxScorers == 2      \* scorers in a dict handed to summarize_cv_scores
MaxFolds == 2        \* folds in a dict handed to summarize_cv_scores
MaxWorkers == 2      \* folds the worker pool of cross_validate runs at a time

-----------------------------------------------------------------------------
(* Text *)

s_test_ == <<"t", "e", "s", "t", "_">>
s_validation_ == <<"v", "a", "l", "i", "d", "a", "t", "i", "o", "n", "_">>
s_train_ == <<"t", "r", "a", "i", "n", "_">>
s_fit_time == <<"f", "i", "t", "_", "t", "i", "m", "e">>
s_score_time == <<"s", "c", "o", "r", "e", "_", "t", "i", "m", "e">>
s_classifier_name ==
    <<"c", "l", "a", "s", "s", "i", "f", "i", "e", "r", "_", "n", "a", "m", "e">>
s_f1 == <<"f", "1">>
s_precision == <<"p", "r", "e", "c", "i", "s", "i", "o", "n">>
s_recall == <<"r", "e", "c", "a", "l", "l">>
s_accuracy == <<"a", "c", "c", "u", "r", "a", "c", "y">>
s_average_precision ==
    <<"a", "v", "e", "r", "a", "g", "e", "_", "p", "r", "e", "c", "i", "s", "i", "o", "n">>
s_roc_auc == <<"r", "o", "c", "_", "a", "u", "c">>
s_test_f1 == s_test_ \o s_f1
s_validation_f1 == s_validation_ \o s_f1

StartsWith(s, p) == Len(s) >= Len(p) /\ SubSeq(s, 1, Len(p)) = p

\* str.replace(old, new): every non-overlapping occurrence of old, scanning
\* from the left, wherever it stands in the string.
RECURSIVE str_replace(_, _, _)
str_replace(s, old, new) ==
    IF Len(s) < Len(old) THEN s
    ELSE IF SubSeq(s, 1, Len(old)) = old
         THEN new \o str_replace(SubSeq(s, Len(old) + 1, Len(s)), old, new)
         ELSE <<Head(s)>> \o str_replace(Tail(s), old, new)

-----------------------------------------------------------------------------
(* Values of a data frame cell *)

Val(v) == [nan |-> FALSE, v |-> v]          \* one per-fold number
NaNVal == [nan |-> TRUE, v |-> 0]           \* numpy.nan in a per-fold array

RECURSIVE GCD(_, _)
GCD(a, b) == IF b = 0 THEN a ELSE GCD(b, a % b)

Num(n, d) == [kind |-> "num", n |-> n \div GCD(n, d), d |-> d \div GCD(n, d), s |-> ""]
NaN == [kind |-> "nan", n |-> 0, d |-> 1, s |-> ""]
Str(s) == [kind |-> "str", n |-> 0, d |-> 1, s |-> s]

RECURSIVE Sum(_)
Sum(vs) == IF vs = <<>> THEN 0 ELSE Head(vs).v + Sum(Tail(vs))

IsNumber(x) == ~x.nan

\* DataFrame.mean() of one column: NaN entries are skipped (skipna).
mean(vs) ==
    LET xs == SelectSeq(vs, IsNumber)
    IN  IF xs = <<>> THEN NaN ELSE Num(Sum(xs), Len(xs))

-----------------------------------------------------------------------------
(* helper_functions.summarize_cv_scores *)

Cell(name, val) == [name |-> name, val |-> val]

\* X_df[labels]: for every label, in turn, every column carrying that label.
RECURSIVE Select(_, _)
Select(df, labels) ==
    IF labels = <<>> THEN <<>>
    ELSE LET lab == Head(labels)
             HasLabel(c) == c.name = lab
         IN  SelectSeq(df, HasLabel) \o Select(df, Tail(labels))

\* X_df[name] = value: overwrite the columns of that name, else add one.
SetColumn(df, name, val) ==
    IF \E i \in 1..Len(df) : df[i].name = name
    THEN [i \in 1..Len(df) |-> IF df[i].name = name THEN Cell(name, val) ELSE df[i]]
    ELSE Append(df, Cell(name, val))

rename(key) == str_replace(key, s_test_, s_validation_)

summarize_cv_scores(XX, name) ==
    LET col_names == [i \in 1..Len(XX) |-> rename(XX[i].key)]
        means == [i \in 1..Len(XX) |-> Cell(col_names[i], mean(XX[i].vals))]
        named == SetColumn(means, s_classifier_name, Str(name))
    IN  Select(named, <<s_classifier_name>> \o col_names)

-----------------------------------------------------------------------------
(* helper_functions.get_hyperparameter_grid *)

RECURSIVE arange(_, _, _)
arange(lo, hi, step) == IF lo >= hi THEN <<>> ELSE <<lo>> \o arange(lo + step, hi, step)

GridModelNames == {"decision_tree", "knn", "svc", "logistic_regression", "random_forest"}

None == [kind |-> "None", items |-> <<>>]
Unset == [kind |-> "unset", items |-> <<>>]
AssertionError == [kind |-> "AssertionError", items |-> <<>>]

get_hyperparameter_grid_All(m) ==
    IF m \notin GridModelNames THEN AssertionError
    ELSE [kind |-> "dict",
          items |-> << <<"randomforestclassifier__n_estimators", arange(500, 1001, 100)>>,
                       <<"randomforestclassifier__min_samples_split", arange(4, 11, 1)>> >>]
get_hyperparameter_grid(m) ==
    IF m \notin GridModelNames THEN AssertionError
    ELSE IF m = "random_forest"
         THEN [kind |-> "dict",
               items |-> << <<"randomforestclassifier__n_estimators", arange(500, 1001, 100)>>,
                            <<"randomforestclassifier__min_samples_split", arange(4, 11, 1)>> >>]
         ELSE None

-----------------------------------------------------------------------------
(* helper_functions.get_feature_lists *)

numeric_features_general ==
    <<"lead_time", "stays_in_weekend_nights", "stays_in_week_nights", "adults",
      "previous_cancellations", "previous_bookings_not_canceled", "booking_changes",
      "days_in_waiting_list", "adr", "required_car_parking_spaces",
      "total_of_special_requests", "arrival_date_year", "arrival_date_week_number",
      "arrival_date_day_of_month">>
numeric_features_special == <<"children", "babies">>
categorical_features_general ==
    <<"hotel", "arrival_date_month", "meal", "market_segment", "distribution_channel",
      "reserved_room_type", "deposit_type", "customer_type">>
categorical_features_special == <<"country">>
drop_features == <<"company", "reservation_status", "reservation_status_date", "agent">>
binary_features == <<"is_repeated_guest">>

get_feature_lists_Overlap ==
    <<numeric_features_general, numeric_features_special,
      categorical_features_general, categorical_features_special \o <<"agent">>,
      drop_features, binary_features>>
get_feature_lists ==
    <<numeric_features_general, numeric_features_special,
      categorical_features_general, categorical_features_special,
      drop_features, binary_features>>

-----------------------------------------------------------------------------
(* The dicts cross_validate returns: fit_time, score_time, then for every  *)
(* scorer its test_ and its train_ array (helper_functions.py, 43-56).      *)

Entry(key, vals) == [key |-> key, vals |-> vals]

RECURSIVE ScoreKeys(_)
ScoreKeys(scorers) ==
    IF scorers = <<>> THEN <<>>
    ELSE <<s_test_ \o Head(scorers), s_train_ \o Head(scorers)>> \o ScoreKeys(Tail(scorers))

CVKeys(scorers) == <<s_fit_time, s_score_time>> \o ScoreKeys(scorers)

\* Scorer names a caller may give to cross_validate; a name is free text.
ScorerPool == {s_f1, s_test_f1, s_validation_f1}

ScorerSeqs ==
    {ss \in UNION {[1..k -> ScorerPool] : k \in 1..MaxScorers} :
        \A i, j \in 1..Len(ss) : ss[i] = ss[j] => i = j}

\* Two shapes of a per-fold array: the same number in every fold, or a
\* number in the first fold only.
FoldSeq(shape, n) ==
    [i \in 1..n |-> Val(IF shape = "flat" THEN 5 ELSE IF i = 1 THEN 8 ELSE 0)]

CVResults ==
    UNION {
      UNION {
        {[i \in 1..Len(CVKeys(ss)) |-> Entry(CVKeys(ss)[i], FoldSeq(shape[i], n))] :
            shape \in [1..Len(CVKeys(ss)) -> {"flat", "first"}]} :
        n \in 1..MaxFolds} :
      ss \in ScorerSeqs}

\* The toy example of helper_functions.main; numbers in units of 1e-8.
Five(v) == <<Val(v), Val(v), Val(v), Val(v), Val(v)>>
toy_score ==
    <<Entry(s_fit_time, <<Val(2657628), Val(2356863), Val(2640152), Val(2609539), Val(2393484)>>),
      Entry(s_score_time, <<Val(2375078), Val(2024961), Val(2282763), Val(2582216), Val(2172470)>>),
      Entry(s_test_ \o s_accuracy, Five(50000000)),
      Entry(s_train_ \o s_accuracy, Five(50000000)),
      Entry(s_test_ \o s_f1, Five(0)),
      Entry(s_train_ \o s_f1, Five(0)),
      Entry(s_test_ \o s_recall, Five(0)),
      Entry(s_train_ \o s_recall, Five(0)),
      Entry(s_test_ \o s_precision, Five(0)),
      Entry(s_train_ \o s_precision, Five(0)),
      Entry(s_test_ \o s_average_precision, Five(50000000)),
      Entry(s_train_ \o s_average_precision, Five(50000000)),
      Entry(s_test_ \o s_roc_auc, Five(50000000)),
      Entry(s_train_ \o s_roc_auc, Five(50000000))>>

expected ==
    <<Cell(s_classifier_name, Str("toy_test")),
      Cell(s_validation_ \o s_accuracy, Num(50000000, 1)),
      Cell(s_train_ \o s_accuracy, Num(50000000, 1)),
      Cell(s_validation_ \o s_f1, Num(0, 1)),
      Cell(s_train_ \o s_f1, Num(0, 1)),
      Cell(s_validation_ \o s_recall, Num(0, 1)),
      Cell(s_train_ \o s_recall, Num(0, 1)),
      Cell(s_validation_ \o s_precision, Num(0, 1)),
      Cell(s_train_ \o s_precision, Num(0, 1)),
      Cell(s_validation_ \o s_average_precision, Num(50000000, 1)),
      Cell(s_train_ \o s_average_precision, Num(50000000, 1)),
      Cell(s_validation_ \o s_roc_auc, Num(50000000, 1)),
      Cell(s_train_ \o s_roc_auc, Num(50000000, 1))>>

Labels(df) == [i \in 1..Len(df) |-> df[i].name]

ClassifierNames == {"toy_test", "Dummy Classifier"}
ModelNameInputs == GridModelNames \cup {"naive_bayes", "Random Forest"}

-----------------------------------------------------------------------------
(* Main: the idle values of the variables of classifier_evaluation.main *)

NoRows == <<>>
NoFile == [written |-> FALSE, rows |-> NoRows]

MainIdle ==
    /\ pc = "idle"
    /\ train_data_file = "none"
    /\ seed_arg = <<>>
    /\ folds_arg = <<>>
    /\ chosen_seed = 0
    /\ n_cv_folds = 0
    /\ exit_code = 0
    /\ data_read = FALSE
    /\ preprocessor = <<>>
    /\ cur = 0
    /\ inflight = {}
    /\ finished = {}
    /\ overtaken = FALSE
    /\ mean_scores_df = NoRows
    /\ report_file = NoFile
    /\ writes = 0
    /\ cv_log = <<>>
    /\ run = 1
    /\ first_report = NoFile
    /\ clock = 1

-----------------------------------------------------------------------------
(* Calls of the helper functions on their own *)

HelperInit ==
    /\ hpc = "start"
    /\ X \in CVResults
    /\ classifier_name = ""
    /\ X_df = NoRows
    /\ model_name = ""
    /\ param_grid = Unset
    /\ MainIdle

CallSummarize(name) ==
    /\ hpc = "start"
    /\ classifier_name' = name
    /\ X_df' = summarize_cv_scores(X, name)
    /\ hpc' = "summarized"
    /\ UNCHANGED <<X, model_name, param_grid, mvars>>

CallGrid(m) ==
    /\ hpc = "summarized"
    /\ model_name' = m
    /\ IF get_hyperparameter_grid(m) = AssertionError
       THEN hpc' = "AssertionError" /\ UNCHANGED param_grid
       ELSE hpc' = "returned" /\ param_grid' = get_hyperparameter_grid(m)
    /\ UNCHANGED <<X, classifier_name, X_df, mvars>>

\* helper_functions.main: the self test on the toy example.
helper_main ==
    /\ hpc = "start"
    /\ X' = toy_score
    /\ classifier_name' = "toy_test"
    /\ X_df' = summarize_cv_scores(toy_score, "toy_test")
    /\ model_name' = "decision_tree"
    /\ LET got == Select(summarize_cv_scores(toy_score, "toy_test"), Labels(expected))
           rf == get_hyperparameter_grid("random_forest")
           dt == get_hyperparameter_grid("decision_tree")
       IN  IF got # expected
           THEN hpc' = "AssertionError" /\ UNCHANGED param_grid
           ELSE IF rf.kind # "dict" \/ dt # None
                THEN hpc' = "AssertionError" /\ UNCHANGED param_grid
                ELSE hpc' = "self_test_passed" /\ param_grid' = dt
    /\ UNCHANGED mvars

HelperNext ==
    \/ \E name \in ClassifierNames : CallSummarize(name)
    \/ \E m \in ModelNameInputs : CallGrid(m)
    \/ helper_main

HelperSpec == HelperInit /\ [][HelperNext]_vars

-----------------------------------------------------------------------------
(* Claims about the helper functions, checked under HelperSpec *)

Names(df) == {df[i].name : i \in 1..Len(df)}
Summarized == hpc \in {"summarized", "returned", "AssertionError", "self_test_passed"}
IsArithmeticMean(val, vs) ==
    val.kind = "num" /\ val.n * Len(vs) = val.d * Sum(vs)

\* C2: every key of X that starts with "test_" appears in the returned row
\* with that prefix replaced by "validation_", and every other key of X
\* appears in the returned row under its own, unchanged name.
C2_RenamesOnlyTestPrefix ==
    Summarized =>
        \A i \in 1..Len(X) :
            LET k == X[i].key
            IN  IF StartsWith(k, s_test_)
                THEN (s_validation_ \o SubSeq(k, Len(s_test_) + 1, Len(k))) \in Names(X_df)
                ELSE k \in Names(X_df)

\* C3: for every key k of X the column derived from k holds the arithmetic
\* mean of the n values of X[k], and the classifier_name column holds the
\* name that was passed.
C3_ColumnsHoldMeans ==
    Summarized =>
        /\ \A i \in 1..Len(X) :
              /\ rename(X[i].key) \in Names(X_df)
              /\ \A j \in 1..Len(X_df) :
                    X_df[j].name = rename(X[i].key)
                        => IsArithmeticMean(X_df[j].val, X[i].vals)
        /\ \A j \in 1..Len(X_df) :
              X_df[j].name = s_classifier_name => X_df[j].val = Str(classifier_name)

\* C4: the returned row has exactly k+1 columns for the k keys of X,
\* classifier_name first, then the column of every key in the position of
\* that key, no column duplicated or omitted.
C4_ColumnOrder ==
    Summarized =>
        /\ Len(X_df) = Len(X) + 1
        /\ X_df[1].name = s_classifier_name
        /\ \A i \in 1..Len(X) : X_df[i + 1].name = rename(X[i].key)
        /\ \A i, j \in 1..Len(X_df) : X_df[i].name = X_df[j].name => i = j

\* C10: get_hyperparameter_grid returns a grid only for "random_forest",
\* None for the four other accepted names, and fails its assertion, without
\* returning anything, for every other name.
C10_GridOnlyForRandomForest ==
    hpc \in {"returned", "AssertionError"} =>
        /\ model_name = "random_forest" =>
              hpc = "returned" /\ param_grid.kind = "dict" /\ Len(param_grid.items) = 2
        /\ model_name \in {"decision_tree", "knn", "svc", "logistic_regression"} =>
              hpc = "returned" /\ param_grid = None
        /\ model_name \notin GridModelNames =>
              hpc = "AssertionError" /\ param_grid = Unset

C10_Witness == hpc = "returned" /\ model_name = "random_forest" /\ param_grid.kind = "dict"


-----------------------------------------------------------------------------
(* classifier_evaluation.main: inputs *)

NoArg == [given |-> FALSE, text |-> <<>>]       \* docopt hands over None
Arg(t) == [given |-> TRUE, text |-> t]

SeedArgs == {NoArg, Arg(<<"7">>), Arg(<<"x", "1">>)}
FoldsArgs == {NoArg, Arg(<<"2">>), Arg(<<"1">>), Arg(<<"2", ".", "5">>)}

\* Training files: one that evaluates cleanly, one on which the fit of one
\* fold of the SVC pipeline fails, one on which scoring a fold of the
\* logistic regression raises, one on which the baseline raises, and one
\* that cannot be read.
DataFiles == {"clean.csv", "svc_fold_unfittable.csv", "lr_scoring_raises.csv",
              "dummy_raises.csv", "missing.csv"}

Digits == {"0", "1", "2", "3", "4", "5", "6", "7", "8", "9"}
DigitValue(c) ==
    CASE c = "0" -> 0 [] c = "1" -> 1 [] c = "2" -> 2 [] c = "3" -> 3 [] c = "4" -> 4
      [] c = "5" -> 5 [] c = "6" -> 6 [] c = "7" -> 7 [] c = "8" -> 8 [] c = "9" -> 9

RECURSIVE DigitsValue(_, _)
DigitsValue(t, acc) ==
    IF t = <<>> THEN acc ELSE DigitsValue(Tail(t), acc * 10 + DigitValue(Head(t)))

ValueError == [ok |-> FALSE, value |-> 0]

\* int(text) on the texts of SeedArgs and FoldsArgs: an optional sign and
\* decimal digits give the number, any other text is a ValueError.
int(t) ==
    LET signed == t # <<>> /\ Head(t) \in {"-", "+"}
        body == IF signed THEN Tail(t) ELSE t
    IN  IF body = <<>> \/ \E i \in 1..Len(body) : body[i] \notin Digits
        THEN ValueError
        ELSE [ok |-> TRUE,
              value |-> IF signed /\ Head(t) = "-"
                        THEN 0 - DigitsValue(body, 0) ELSE DigitsValue(body, 0)]

-----------------------------------------------------------------------------
(* classifier_evaluation.main: the estimators *)

eval_metrics == <<s_f1, s_precision, s_recall, s_accuracy>>

models == <<"Decision Tree", "k_Nearest_Neighbor", "SVC (RBF kernel)",
            "Logistic Regression", "Random Forest">>

EstimatorName(i) == IF i = 0 THEN "Dummy Classifier" ELSE models[i]

\* random_state of an estimator; KNeighborsClassifier takes none.
random_state_PerRun(name) == IF name = "k_Nearest_Neighbor" THEN 0 ELSE chosen_seed + run
random_state(name) == IF name = "k_Nearest_Neighbor" THEN 0 ELSE chosen_seed

\* The column transformer: (chain, columns) pairs; columns that no pair
\* lists fall to the remainder, which make_column_transformer drops.
make_column_transformer(groups) ==
    <<[chain |-> <<"SimpleImputer(median)", "StandardScaler">>, columns |-> groups[1]],
      [chain |-> <<"SimpleImputer(constant, 0)", "StandardScaler">>, columns |-> groups[2]],
      [chain |-> <<"SimpleImputer(most_frequent)", "OneHotEncoder(ignore)">>, columns |-> groups[3]],
      [chain |-> <<"SimpleImputer(constant, missing)", "OneHotEncoder(ignore)">>, columns |-> groups[4]],
      [chain |-> <<"SimpleImputer(most_frequent)">>, columns |-> groups[6]]>>

\* What cross_validate is handed: the baseline as it is, every registered
\* model behind the preprocessor.
model_dummy == [name |-> "Dummy Classifier", steps |-> <<"dummyclassifier">>, transform |-> <<>>]
model_pipe_Bare(m) == [name |-> m, steps |-> <<m>>, transform |-> <<>>]
model_pipe(m) == [name |-> m, steps |-> <<"columntransformer", m>>, transform |-> preprocessor]

-----------------------------------------------------------------------------
(* cross_validate, as main uses it: cv=n_cv_folds, n_jobs=-1, four         *)
(* metrics, return_train_score=True and no error_score argument, so a fold *)
(* whose fit fails is recorded with NaN scores and a warning, while any     *)
(* other exception leaves cross_validate and main.                         *)

FoldOutcome(file, name, f) ==
    IF file = "svc_fold_unfittable.csv" /\ name = "SVC (RBF kernel)" /\ f = 1 THEN "fit_failed"
    ELSE IF file = "lr_scoring_raises.csv" /\ name = "Logistic Regression" /\ f = 2 THEN "raises"
    ELSE IF file = "dummy_raises.csv" /\ name = "Dummy Classifier" /\ f = 1 THEN "raises"
    ELSE "ok"

\* The number a fitted estimator scores in one fold: fixed by the estimator,
\* its random_state, the fold and the metric key.
Score(name, f, k) ==
    LET idx == CHOOSE i \in 0..Len(models) : EstimatorName(i) = name
    IN  (idx * 7 + f * 3 + k * 5 + random_state(name) * 2) % 11

\* What a worker delivers for one fold: the two durations it measured and
\* whether the fit succeeded (a failed fit is not scored).
FoldResult(name, f) ==
    [fold |-> f,
     fitted |-> FoldOutcome(train_data_file, name, f) = "ok",
     fit_time |-> clock,
     score_time |-> IF FoldOutcome(train_data_file, name, f) = "ok" THEN clock ELSE 0]

\* The dict cross_validate returns: every array in fold order, whatever the
\* order in which the workers delivered.
scores(name) ==
    LET keys == CVKeys(eval_metrics)
        OfFold(f) == CHOOSE r \in finished : r.fold = f
        Value(k, f) ==
            IF k = 1 THEN Val(OfFold(f).fit_time)
            ELSE IF k = 2 THEN Val(OfFold(f).score_time)
            ELSE IF OfFold(f).fitted THEN Val(Score(name, f, k)) ELSE NaNVal
    IN  [k \in 1..Len(keys) |-> Entry(keys[k], [f \in 1..n_cv_folds |-> Value(k, f)])]

\* pd.concat([mean_scores_df, row], ignore_index=True)
concat_Front(df, row) == <<row>> \o df
concat(df, row) == df \o <<row>>

\* Nothing in main catches an exception.
after_raise_Swallowed == "to_csv"
after_raise == "raised"

-----------------------------------------------------------------------------
(* classifier_evaluation.main: the run *)

HelperIdle ==
    /\ hpc = "idle"
    /\ X = <<>>
    /\ classifier_name = ""
    /\ X_df = NoRows
    /\ model_name = ""
    /\ param_grid = Unset

Fresh ==
    /\ pc = "parse_seed"
    /\ chosen_seed = 0
    /\ n_cv_folds = 0
    /\ exit_code = 0
    /\ data_read = FALSE
    /\ preprocessor = <<>>
    /\ cur = 0
    /\ inflight = {}
    /\ finished = {}
    /\ overtaken = FALSE
    /\ mean_scores_df = NoRows
    /\ report_file = NoFile
    /\ writes = 0
    /\ cv_log = <<>>

Init ==
    /\ HelperIdle
    /\ train_data_file \in DataFiles
    /\ seed_arg \in SeedArgs
    /\ folds_arg \in FoldsArgs
    /\ run = 1
    /\ first_report = NoFile
    /\ clock \in {1, 2}
    /\ Fresh

args == <<train_data_file, seed_arg, folds_arg>>
runs == <<run, first_report, clock>>

\* lines 54-67
ParseSeed ==
    /\ pc = "parse_seed"
    /\ IF ~seed_arg.given
       THEN chosen_seed' = 1 /\ pc' = "parse_folds" /\ UNCHANGED exit_code
       ELSE IF int(seed_arg.text).ok
            THEN /\ chosen_seed' = int(seed_arg.text).value
                 /\ pc' = "parse_folds"
                 /\ UNCHANGED exit_code
            ELSE /\ exit_code' = 0 - 2
                 /\ pc' = "exited"
                 /\ UNCHANGED chosen_seed
    /\ UNCHANGED <<hvars, args, runs, n_cv_folds, data_read, preprocessor, cur, inflight,
                   finished, overtaken, mean_scores_df, report_file, writes, cv_log>>

\* lines 69-82
ParseFolds_SeedCode ==
    /\ pc = "parse_folds"
    /\ IF ~folds_arg.given
       THEN n_cv_folds' = 5 /\ pc' = "read_csv" /\ UNCHANGED exit_code
       ELSE IF int(folds_arg.text).ok
            THEN /\ n_cv_folds' = int(folds_arg.text).value
                 /\ pc' = "read_csv"
                 /\ UNCHANGED exit_code
            ELSE /\ exit_code' = 0 - 2
                 /\ pc' = "exited"
                 /\ UNCHANGED n_cv_folds
    /\ UNCHANGED <<hvars, args, runs, chosen_seed, data_read, preprocessor, cur, inflight,
                   finished, overtaken, mean_scores_df, report_file, writes, cv_log>>
ParseFolds ==
    /\ pc = "parse_folds"
    /\ IF ~folds_arg.given
       THEN n_cv_folds' = 5 /\ pc' = "read_csv" /\ UNCHANGED exit_code
       ELSE IF int(folds_arg.text).ok
            THEN /\ n_cv_folds' = int(folds_arg.text).value
                 /\ pc' = "read_csv"
                 /\ UNCHANGED exit_code
            ELSE /\ exit_code' = 0 - 3
                 /\ pc' = "exited"
                 /\ UNCHANGED n_cv_folds
    /\ UNCHANGED <<hvars, args, runs, chosen_seed, data_read, preprocessor, cur, inflight,
                   finished, overtaken, mean_scores_df, report_file, writes, cv_log>>

\* lines 85-88
ReadData ==
    /\ pc = "read_csv"
    /\ IF train_data_file = "missing.csv"
       THEN pc' = after_raise /\ UNCHANGED data_read
       ELSE pc' = "preprocessor" /\ data_read' = TRUE
    /\ UNCHANGED <<hvars, args, runs, chosen_seed, n_cv_folds, exit_code, preprocessor, cur,
                   inflight, finished, overtaken, mean_scores_df, report_file, writes, cv_log>>

\* lines 90-124
BuildPreprocessor ==
    /\ pc = "preprocessor"
    /\ preprocessor' = make_column_transformer(get_feature_lists)
    /\ cur' = 0
    /\ pc' = "cross_validate"
    /\ UNCHANGED <<hvars, args, runs, chosen_seed, n_cv_folds, exit_code, data_read,
                   inflight, finished, overtaken, mean_scores_df, report_file, writes, cv_log>>

\* lines 127-136 for the baseline, 155-164 for a registered model: the call
\* of cross_validate, up to the first folds being at the workers.
CallCrossValidate ==
    /\ pc = "cross_validate"
    /\ cv_log' = Append(cv_log, IF cur = 0 THEN model_dummy ELSE model_pipe(models[cur]))
    /\ IF n_cv_folds < 2
       THEN pc' = after_raise /\ UNCHANGED inflight
       ELSE /\ pc' = "folds"
            /\ inflight' = {f \in 1..n_cv_folds : f <= MaxWorkers}
    /\ UNCHANGED <<hvars, args, runs, chosen_seed, n_cv_folds, exit_code, data_read,
                   preprocessor, cur, finished, overtaken, mean_scores_df, report_file,
                   writes>>

\* One worker ends its fold; the next fold, if any, takes its place.
FoldDone(f) ==
    /\ pc = "folds"
    /\ f \in inflight
    /\ LET next == Cardinality(finished) + Cardinality(inflight) + 1
       IN  IF FoldOutcome(train_data_file, EstimatorName(cur), f) = "raises"
           THEN /\ pc' = after_raise
                /\ UNCHANGED <<inflight, finished, overtaken>>
           ELSE /\ pc' = "folds"
                /\ finished' = finished \cup {FoldResult(EstimatorName(cur), f)}
                /\ inflight' = (inflight \ {f}) \cup {g \in {next} : g <= n_cv_folds}
                /\ overtaken' = (overtaken \/ \E g \in inflight : g < f)
    /\ UNCHANGED <<hvars, args, runs, chosen_seed, n_cv_folds, exit_code, data_read,
                   preprocessor, cur, mean_scores_df, report_file, writes, cv_log>>

\* cross_validate returns; lines 138 and 165-168, and the step of the loop
\* of line 152.
Summarize ==
    /\ pc = "folds"
    /\ inflight = {}
    /\ Cardinality(finished) = n_cv_folds
    /\ mean_scores_df' =
          concat(mean_scores_df, summarize_cv_scores(scores(EstimatorName(cur)), EstimatorName(cur)))
    /\ finished' = {}
    /\ IF cur < Len(models)
       THEN cur' = cur + 1 /\ pc' = "cross_validate"
       ELSE pc' = "to_csv" /\ UNCHANGED cur
    /\ UNCHANGED <<hvars, args, runs, chosen_seed, n_cv_folds, exit_code, data_read,
                   preprocessor, inflight, overtaken, report_file, writes, cv_log>>

\* lines 173-175
WriteReport ==
    /\ pc = "to_csv"
    /\ report_file' = [written |-> TRUE, rows |-> mean_scores_df]
    /\ writes' = writes + 1
    /\ pc' = "done"
    /\ UNCHANGED <<hvars, args, runs, chosen_seed, n_cv_folds, exit_code, data_read,
                   preprocessor, cur, inflight, finished, overtaken, mean_scores_df, cv_log>>

\* The same command line is run a second time, on a machine that may be
\* faster or slower than the first time.
RunAgain ==
    /\ pc = "done"
    /\ run = 1
    /\ run' = 2
    /\ first_report' = report_file
    /\ clock' \in {1, 2}
    /\ pc' = "parse_seed"
    /\ chosen_seed' = 0
    /\ n_cv_folds' = 0
    /\ exit_code' = 0
    /\ data_read' = FALSE
    /\ preprocessor' = <<>>
    /\ cur' = 0
    /\ inflight' = {}
    /\ finished' = {}
    /\ overtaken' = FALSE
    /\ mean_scores_df' = NoRows
    /\ report_file' = NoFile
    /\ writes' = 0
    /\ cv_log' = <<>>
    /\ UNCHANGED <<hvars, args>>

Next ==
    \/ ParseSeed
    \/ ParseFolds
    \/ ReadData
    \/ BuildPreprocessor
    \/ CallCrossValidate
    \/ \E f \in 1..5 : FoldDone(f)
    \/ Summarize
    \/ WriteReport
    \/ RunAgain

Spec == Init /\ [][Next]_vars

-----------------------------------------------------------------------------
(* Claims about classifier_evaluation.main, checked under Spec *)

ReportNames(rows) == [i \in 1..Len(rows) |-> rows[i][1].val.s]
RegistrationOrder ==
    <<"Dummy Classifier", "Decision Tree", "k_Nearest_Neighbor", "SVC (RBF kernel)",
      "Logistic Regression", "Random Forest">>

\* C1: the report a successful run writes has exactly one row for the
\* baseline and one for each of the five registered models, the baseline
\* first and the models in registration order, in whatever order the folds
\* were delivered.
C1_ReportInRegistrationOrder ==
    report_file.written =>
        /\ ReportNames(report_file.rows) = RegistrationOrder
        /\ \A i \in 1..Len(report_file.rows) :
              report_file.rows[i][1].name = s_classifier_name

C1_Witness ==
    /\ pc = "done"
    /\ report_file.written
    /\ overtaken
    /\ Len(report_file.rows) = 6

SeedInvalid == seed_arg = Arg(<<"x", "1">>)
FoldsInvalid == folds_arg = Arg(<<"2", ".", "5">>)
NothingDone ==
    /\ ~data_read
    /\ cv_log = <<>>
    /\ finished = {} /\ inflight = {}
    /\ mean_scores_df = NoRows
    /\ ~report_file.written /\ writes = 0

\* C5: a seed or a fold count that is no integer ends the run with exit
\* code -2 (seed) or -3 (fold count) before the dataset is read, before any
\* cross validation and before any report; with both invalid the seed is
\* reported; an absent option takes its default, seed 1 and 5 folds,
\* without an error.
C5_ConfigurationErrors ==
    /\ pc \in {"parse_seed", "parse_folds", "exited"} => NothingDone
    /\ SeedInvalid /\ pc # "parse_seed" => pc = "exited" /\ exit_code = 0 - 2
    /\ ~SeedInvalid /\ FoldsInvalid /\ pc \notin {"parse_seed", "parse_folds"}
          => pc = "exited" /\ exit_code = 0 - 3
    /\ pc = "exited" => (SeedInvalid \/ FoldsInvalid)
    /\ ~seed_arg.given /\ pc # "parse_seed" => chosen_seed = 1 /\ exit_code # 0 - 2
    /\ ~folds_arg.given /\ ~SeedInvalid /\ pc \notin {"parse_seed", "parse_folds"}
          => n_cv_folds = 5 /\ pc # "exited" /\ exit_code = 0

C5_Witness ==
    /\ pc = "exited"
    /\ exit_code = 0 - 3
    /\ FoldsInvalid
    /\ ~seed_arg.given /\ chosen_seed = 1

BothReports == run = 2 /\ report_file.written /\ first_report.written
IsTiming(name) == name \in {s_fit_time, s_score_time}

Routes(c) == {k \in 1..Len(preprocessor) : \E i \in 1..Len(preprocessor[k].columns) :
                                               preprocessor[k].columns[i] = c}
ChainOfGroup(a) == IF a = 6 THEN 5 ELSE a

\* C8: the six groups of get_feature_lists are pairwise disjoint without a
\* repeated name, and in the transform main composes every column goes to
\* at most one chain: a column of a non-drop group to the chain of its
\* group, a column of the drop group to none.
C8_DisjointGroupsAndRouting ==
    /\ Len(get_feature_lists) = 6
    /\ \A a, b \in 1..6 :
          \A i \in 1..Len(get_feature_lists[a]), j \in 1..Len(get_feature_lists[b]) :
              get_feature_lists[a][i] = get_feature_lists[b][j] => a = b /\ i = j
    /\ preprocessor # <<>> =>
          /\ Len(preprocessor) = 5
          /\ \A a \in 1..6 : \A i \in 1..Len(get_feature_lists[a]) :
                /\ Cardinality(Routes(get_feature_lists[a][i])) <= 1
                /\ Routes(get_feature_lists[a][i]) = IF a = 5 THEN {} ELSE {ChainOfGroup(a)}

C8_Witness ==
    /\ pc = "cross_validate"
    /\ preprocessor # <<>>
    /\ Routes("country") = {4}
    /\ Routes("agent") = {}

\* C9 as stated: every estimator handed to cross_validate, the baseline
\* included, is a pipeline with the preprocessing transform in front.
C9_EveryEstimatorPreprocessed ==
    \A i \in 1..Len(cv_log) :
        /\ cv_log[i].steps[1] = "columntransformer"
        /\ cv_log[i].transform # <<>>

\* C9 as amended: every registered model is cross validated as a pipeline
\* with the preprocessing transform in front; the baseline is handed to
\* cross_validate on its own, without the transform.
C9_RegisteredModelsPreprocessed ==
    \A i \in 1..Len(cv_log) :
        /\ cv_log[i].name = RegistrationOrder[i]
        /\ IF i = 1
           THEN cv_log[i].steps = <<"dummyclassifier">> /\ cv_log[i].transform = <<>>
           ELSE /\ cv_log[i].steps = <<"columntransformer", cv_log[i].name>>
                /\ cv_log[i].transform = make_column_transformer(get_feature_lists)
                /\ cv_log[i].transform = preprocessor

C9_Witness ==
    /\ report_file.written
    /\ Len(cv_log) = 6
    /\ cv_log[6].steps = <<"columntransformer", "Random Forest">>

====
